---- MODULE Spec2Model ----
(***************************************************************************)
(* The EEG streaming application documented in                             *)
(*   src/src/pages/blog/2024-09-27-building-an-advanced-real-time-eeg-     *)
(*   analysis-app-with-python-and-brainflow.md   (the Flask server app.py) *)
(*   src/unnamed/part_001                        (the first main.py)       *)
(*   src/unnamed/part_000                        (the browser's app.js)    *)
(*                                                                         *)
(* Spec      the Flask server of the blog post: the start and stop         *)
(*           handlers and the acquisition loop threads (on polls that      *)
(*           return no data), a call at a time.                            *)
(* SpecHold  the same next to the calibration run, a call at a time, with  *)
(*           a start request made only when no loop thread is alive.       *)
(* FairSpec  the start and stop handlers and the loop threads, with the    *)
(*           scheduling the Python threads get.                            *)
(* SpecCal   calibrate() and the enabled_channels setting.                 *)
(* SpecData  the processing of the loop body on one stream, with the       *)
(*           filter switches.                                              *)
(* SpecMain  the first main.py (part_001): the request threads of         *)
(*           start_analysis and stop_analysis, a line at a time, and the   *)
(*           stream_data threads on one global board.                      *)
(* SpecBuf   the archive collected_data under start, stop and the loop    *)
(*           threads, whose passes write it a line at a time.              *)
(* SpecExport   export_data() and create_csv(), a line at a time, next to  *)
(*              a loop thread that archives its windows.                   *)
(* SpecChart    app.js: the update_data handler, the color boxes and the   *)
(*              settings inputs.                                           *)
(* SpecSlide    app.js: the update_data handler over more than 100 events. *)
(* SpecControls app.js: the buttons, disableControls and the inputs.       *)
(* SpecSeries   app.js: createChart on every value of the inputs.          *)
(* SpecSettings update_settings() on requests naming the filter globals.   *)
(* SpecOffset   the loop's processing of constant signals.                 *)
(* SpecBand     the loop's band-pass next to update_settings().            *)
(*                                                                         *)
(* The sensor library (BoardShim, DataFilter) is not part of the           *)
(* repository: each of its calls either returns or raises, and the model   *)
(* takes both outcomes.  A sample is a record [v, ops]: the integer        *)
(* reading the board delivered and the sequence of operations the loop     *)
(* applied to it, in order, so that a processed sample never equals the    *)
(* reading it was made from.                                               *)
(***************************************************************************)
EXTENDS Integers, Sequences, FiniteSets, TLC

\* ------------------------------------------------------------------ bounds
\* Acquisition loop threads the model lets exist at once (Thread objects).
MaxLoops == 2
\* Samples per channel one get_current_board_data call delivers, at most.
MaxWin == 2
\* Rows of the board's EEG data (8 on the PiEEG board; the model keeps fewer).
NumEEG == 2
\* Polls one calibration run makes within its 5 seconds, at most.
MaxCalPolls == 2
\* BoardShim objects main.py makes over one run of the model.
MaxBoards == 2
\* Requests main.py serves at the same time.
MaxRequests == 2

\* ------------------------------------------------------ program constants
\* ref_mean > 1000
RefThreshold == 1000

\* Readings the board delivers in the model: one below and one above the
\* REF threshold.
RawVals == {1, 2000}

Loops == 1..MaxLoops
Requests == 1..MaxRequests
Rows == 1..NumEEG

\* ------------------------------------------------------------ arithmetic
RECURSIVE GCD(_, _)
GCD(a, b) == IF b = 0 THEN a ELSE GCD(b, a % b)

Abs(x) == IF x < 0 THEN -x ELSE x

\* A rational num/den in lowest terms; den = 0 is numpy's nan.
NaN == [num |-> 0, den |-> 0]
Rat(n, d) ==
    IF d = 0 THEN NaN
    ELSE LET g == GCD(Abs(n), d) IN [num |-> n \div g, den |-> d \div g]

RECURSIVE SumSeq(_)
SumSeq(s) == IF s = <<>> THEN 0 ELSE Head(s) + SumSeq(Tail(s))

\* np.mean of a list of readings: nan for the empty list.
NpMean(s) == Rat(SumSeq(s), Len(s))

\* ---------------------------------------------------------------- samples
Raw(x) == [v |-> x, ops |-> <<>>]
RawRow(r) == [i \in 1..Len(r) |-> Raw(r[i])]
Applied(s, name, arg) == [s EXCEPT !.ops = Append(@, [op |-> name, arg |-> arg])]
ApplyRow(r, name, arg) == [i \in 1..Len(r) |-> Applied(r[i], name, arg)]

\* What board.get_current_board_data(fs)[eeg_channels, :] can be: NumEEG rows
\* of the same length, 0..MaxWin readings each.
RawWindows == UNION {[Rows -> [1..n -> RawVals]] : n \in 0..MaxWin}
WinLen(w) == Len(w[1])

\* ------------------------------------------------ the loop's processing
\* BoardShim.get_eeg_channels(board_id): the rows of the board's data that
\* carry EEG, off..off+NumEEG-1; the library's board description sets off.
EegOffsets == {0, 1}
EegChannels(off) == {off + i : i \in 0..(NumEEG - 1)}

\* The four DataFilter calls made on a row, in the order called, with the
\* literals of the perform_bandpass and perform_bandstop calls.
BandpassArgs == <<3, 45, 2>>
Notch50Args == <<48, 52, 2>>
Notch60Args == <<58, 62, 2>>
FilterCalls ==
    << [op |-> "detrend", arg |-> <<>>],
       [op |-> "bandpass", arg |-> BandpassArgs],
       [op |-> "bandstop", arg |-> Notch50Args],
       [op |-> "bandstop", arg |-> Notch60Args] >>

\* How many of the four calls returned on a row before one raised (all of
\* them when none did); the exception is caught and logged inside the loop
\* over the channels and the row stays as the calls that returned left it.
FilterReturns == 0..Len(FilterCalls)
AllReturn == [r \in Rows |-> Len(FilterCalls)]

RECURSIVE FilterRow(_, _)
FilterRow(r, k) ==
    IF k = 0 THEN r
    ELSE ApplyRow(FilterRow(r, k - 1), FilterCalls[k].op, FilterCalls[k].arg)

\* `for channel in eeg_channels: ... data_transposed[channel]`: the row the
\* loop filters is the one at index `channel` of data_transposed (0-based,
\* row channel + 1 here); past the last row the IndexError is caught and
\* logged and the row is skipped.
ApplyFilters(w, off, ret) ==
    [r \in Rows |-> IF (r - 1) \in EegChannels(off) THEN FilterRow(w[r], ret[r]) ELSE w[r]]

\* `for idx in range(len(eeg_channels)): data_transposed[idx] -=
\* calibration_values[idx]` raises IndexError on a shorter vector.
BaselineRaises(cal) == Len(cal) < NumEEG
\* Subtracting 0 leaves the readings as they are.
ApplyBaseline(w, cal) ==
    [r \in Rows |-> IF cal[r] = Rat(0, 1) THEN w[r]
                    ELSE ApplyRow(w[r], "baseline", <<cal[r].num, cal[r].den>>)]

\* The outcomes of `ref_mean > 1000` on row 0.  With no filter applied the
\* values are v, or v - c after baseline correction, and the test is exact
\* (nan compares False); the numbers a filter returns are not modelled, so
\* on a filtered row both outcomes are taken.
RefMeanAbove(row) ==
    LET n == Len(row)
        ops == row[1].ops
        sum == SumSeq([i \in 1..n |-> row[i].v])
    IN  IF ops = <<>> THEN {sum > RefThreshold * n}
        ELSE IF Len(ops) = 1 /\ ops[1].op = "baseline"
        THEN LET num == ops[1].arg[1]
                 den == ops[1].arg[2]
             IN  IF den = 0 THEN {FALSE}
                 ELSE {sum * den - num * n > RefThreshold * n * den}
        ELSE BOOLEAN

NormalizeRef(w, above) ==
    IF above THEN [w EXCEPT ![1] = ApplyRow(@, "normalize", <<>>)] ELSE w

\* data_transposed as it stands at line 262, from the window read at line
\* 225: filters, then baseline correction, then REF normalisation.
Filtered(w, st, off, ret) ==
    IF st.bandpass_enabled THEN ApplyFilters(w, off, ret) ELSE w
Corrected(w, st, cal) ==
    IF st.baseline_correction_enabled THEN ApplyBaseline(w, cal) ELSE w
Processed(w, st, cal, off, ret, above) ==
    NormalizeRef(Corrected(Filtered([r \in Rows |-> RawRow(w[r])], st, off, ret),
                           st, cal),
                 above)

\* The number a sample of a constant row stands for.  Detrending with
\* DetrendOperations.CONSTANT subtracts the mean of the row, which leaves 0;
\* the band-pass and the notches are linear and keep a row of zeros (what
\* they make of another row is not modelled); baseline correction subtracts
\* the calibration value; the normalisation divides by a standard deviation
\* of 0, which numpy answers with nan.
Unknown == [num |-> 1, den |-> 0]
Sub(a, b) ==
    IF a.den = 0 THEN a
    ELSE IF b.den = 0 THEN b
    ELSE Rat(a.num * b.den - b.num * a.den, a.den * b.den)

RECURSIVE ValueAfter(_, _)
ValueAfter(s, k) ==
    IF k = 0 THEN Rat(s.v, 1)
    ELSE LET x == ValueAfter(s, k - 1)
             o == s.ops[k]
         IN  CASE o.op = "detrend" -> IF x.den = 0 THEN x ELSE Rat(0, 1)
               [] o.op \in {"bandpass", "bandstop"} ->
                     IF x = Rat(0, 1) \/ x.den = 0 THEN x ELSE Unknown
               [] o.op = "baseline" -> Sub(x, Rat(o.arg[1], o.arg[2]))
               [] o.op = "normalize" -> NaN

ConstValue(s) == ValueAfter(s, Len(s.ops))

\* {'raw': [channel[0] for channel in data_transposed]}
Payload(p) == [r \in Rows |-> p[r][1]]

\* socketio.emit('update_data', {'raw': ...}) and socketio.emit('analysis_stopped')
UpdateData(raw) == [event |-> "update_data", raw |-> raw]
AnalysisStopped == [event |-> "analysis_stopped", raw |-> <<>>]

\* ------------------------------------------------------------------ state
VARIABLES
    running,             \* the global flag the loop tests
    runningBound,        \* the name `running` is bound (running is FALSE until it is)
    settings,            \* the globals update_settings assigns
    calibration_values,  \* one rational per calibrated channel
    collected_data,      \* the rows export_data reads
    gpio_open,           \* spi / line / chip are open (cleanup closes them)
    eegOffset,           \* first row get_eeg_channels names
    pc,                  \* where each read_eeg_data_brainflow thread stands
    session,             \* the BoardShim session of each loop thread
    startPc,             \* where the start_analysis handler stands
    stopPc,              \* where the stop_analysis handler stands
    lastStart,           \* what the last start_analysis returned
    lastUpdate,          \* how the last update_settings ended
    emitted,             \* the last event socketio.emit sent, <<>> if none
    calPc,               \* where calibrate() stands
    calSession,          \* the BoardShim session of calibrate()
    calibration_data,    \* calibrate()'s local lists
    calPolls,            \* polls the calibration run has made
    \* history, written only to state properties
    wanted,              \* the settings, had every update_settings request been applied
    passData,            \* data_transposed of each loop thread in lines 265-274, as a list
    passIdx,             \* the row each thread's `for idx, channel_data` loop extends next
    stopPending,         \* loops a stop request found alive and not yet exited
    startFound,          \* the flag and the live loops the start request in progress found
    stopIdle,            \* the stop request in progress found running False
    calBefore,           \* calibration_values when the run in progress began
    calResult            \* how the last calibration run ended

server_vars ==
    <<passData, passIdx, running, runningBound, lastUpdate, wanted, settings, calibration_values, collected_data, gpio_open, eegOffset,
      pc, session, startPc, stopPc, lastStart, emitted,
      calPc, calSession, calibration_data, calPolls,
      startFound, stopPending, stopIdle, calBefore, calResult>>

\* main.py (part_001)
VARIABLES
    is_streaming,        \* the global flag stream_data tests
    board,               \* the BoardShim the global `board` names, 0 for None
    boards,              \* the session state of every BoardShim made so far
    mpc,                 \* where each stream_data thread stands
    mreq,                \* the line each request thread stands before, "idle" if none
    mainEmitted,         \* 'raw' of the last update_data event, <<>> if none
    mainReply            \* how the last request handler ended

main_vars == <<is_streaming, board, boards, mpc, mreq, mainEmitted, mainReply>>

\* export_data, a read of the global collected_data at a time
VARIABLES
    exportReply,         \* what the last GET /export-data returned
    exportPc,            \* the line the request stands before, "idle" if none
    exportArg,           \* the num_rows argument of the request under way
    exportN              \* the local num_rows of the request under way

export_vars == <<exportReply, exportPc, exportArg, exportN>>

\* app.js (part_000) on the page of index.html
VARIABLES
    inputs,              \* the five settings inputs of the page
    chart,               \* eegChart: labels and datasets
    controlsDisabled,    \* the argument of the last disableControls call
    calText,             \* the text of calibrateBtn
    calPending,          \* fetches of /calibrate not yet settled
    startPending,        \* fetches of /start-analysis not yet answered
    clientTick,          \* update_data events handled so far (stands for Date.now())
    \* history, written only to state properties
    clientState,         \* Stopped, Running or Calibrating: the handler that ran last
    beforeClick          \* the series as it was before the last action, if a click

client_vars ==
    <<inputs, chart, controlsDisabled, calText, calPending, startPending, clientTick,
      clientState, beforeClick>>

vars == <<server_vars, main_vars, export_vars, client_vars>>

EmptyRows == [r \in Rows |-> <<>>]

\* Line 265: collected_data = [[] for _ in range(len(eeg_channels))].
Reset(cd) == EmptyRows

\* Line 268: collected_data[idx].extend(channel_data), channel_data being
\* row idx of data_transposed.
Extend(cd, idx, p) == [cd EXCEPT ![idx] = @ \o p[idx]]

\* A global no statement of the module binds: reading it raises NameError.
Unbound == [bound |-> FALSE, num |-> 0, den |-> 1]
Unset == [bound |-> FALSE, on |-> FALSE]

\* The number n/d, and the value x, held by a global an assignment has bound.
Num(n, d) == [bound |-> TRUE, num |-> Rat(n, d).num, den |-> Rat(n, d).den]
Set(x) == [bound |-> TRUE, on |-> x]

\* The globals update_settings declares, as the module binds them: lines
\* 195-200 bind five of the nine, and nothing binds lowcut, highcut, order
\* and smoothing_enabled.
InitSettings ==
    [lowcut |-> Unbound, highcut |-> Unbound, order |-> Unbound,
     baseline_correction_enabled |-> FALSE, enabled_channels |-> NumEEG,
     ref_enabled |-> TRUE, biasout_enabled |-> TRUE, bandpass_enabled |-> FALSE,
     smoothing_enabled |-> Unset]

ZeroVector == [r \in Rows |-> Rat(0, 1)]

\* The globals as the module leaves them, with calibration_values = cal.
\* Run as a script, the `if __name__ == '__main__':` block binds running and
\* gives collected_data its empty rows; imported by a WSGI runner, the block
\* is skipped: collected_data is the [] of line 202 and running is bound by
\* the first start or stop request.  spi, line and chip are bound nowhere.
\* (With the block where the post prints it, before line 195, line 147
\* raises NameError and no server starts: the block stands at the end.)
ServerInitFrom(cal) ==
    /\ running = FALSE
    /\ runningBound \in BOOLEAN
    /\ settings = InitSettings
    /\ wanted = InitSettings
    /\ lastUpdate = "none"
    /\ calibration_values = cal
    /\ collected_data = IF runningBound THEN EmptyRows ELSE <<>>
    /\ gpio_open = FALSE
    /\ eegOffset \in EegOffsets
    /\ pc = [t \in Loops |-> "free"]
    /\ passData = [t \in Loops |-> <<>>]
    /\ passIdx = [t \in Loops |-> 1]
    /\ session = [t \in Loops |-> "none"]
    /\ startPc = "idle"
    /\ startFound = [running |-> FALSE, alive |-> FALSE]
    /\ stopPc = "idle"
    /\ lastStart = "none"
    /\ emitted = <<>>
    /\ calPc = "idle"
    /\ calSession = "none"
    /\ calibration_data = <<>>
    /\ calPolls = 0
    /\ stopPending = {}
    /\ stopIdle = FALSE
    /\ calBefore = <<>>
    /\ calResult = "none"

Alive(t) ==
    pc[t] \in {"setup", "start", "top", "body", "archive", "emit", "sleep",
               "stop", "release"}
Holds(t) == session[t] # "none"
FreeSlots == {t \in Loops : pc[t] = "free"}
Min(S) == CHOOSE x \in S : \A y \in S : x <= y

\* ------------------------------------------------------- control handlers
\* cleanup_spi_gpio(): closes spi, line and chip when they are open.  The
\* three closes stand in one try: when one raises, those after it are skipped
\* and the except clause only logs, so what was open can stay open.
CleanupSpiGpio == gpio_open' \in {FALSE, gpio_open}

\* POST /start-analysis, one request at a time and a line at a time.  Line
\* 294: running = True.
StartBegin ==
    /\ startPc = "idle"
    /\ startFound' = [running |-> running, alive |-> \E t \in Loops : Alive(t)]
    /\ running' = TRUE
    /\ runningBound' = TRUE
    /\ startPc' = "cleanup"
    /\ UNCHANGED <<settings, calibration_values, collected_data, gpio_open,
                   eegOffset, passData, passIdx, lastUpdate, wanted, pc,
                   session, stopPc, lastStart, emitted, calPc, calSession,
                   calibration_data, calPolls, stopPending, stopIdle,
                   calBefore, calResult>>

\* Line 295: cleanup_spi_gpio().
StartCleanup ==
    /\ startPc = "cleanup"
    /\ CleanupSpiGpio
    /\ startPc' = "check"
    /\ UNCHANGED <<running, runningBound, settings, calibration_values,
                   collected_data, eegOffset, startFound, passData, passIdx,
                   lastUpdate, wanted, pc, session, stopPc, lastStart,
                   emitted, calPc, calSession, calibration_data, calPolls,
                   stopPending, stopIdle, calBefore, calResult>>

\* Lines 297-298; `conflict` is what check_gpio_conflicts() returns.  With a
\* conflict the request is answered 409.
StartCheck(conflict) ==
    /\ startPc = "check"
    /\ IF conflict
       THEN /\ lastStart' = "409"
            /\ startPc' = "idle"
       ELSE /\ lastStart' = lastStart
            /\ startPc' = "spawn"
    /\ UNCHANGED <<running, runningBound, settings, calibration_values,
                   collected_data, gpio_open, eegOffset, startFound,
                   passData, passIdx, lastUpdate, wanted, pc, session,
                   stopPc, emitted, calPc, calSession, calibration_data,
                   calPolls, stopPending, stopIdle, calBefore, calResult>>

\* Line 300: the thread is started, and the function ends without a return
\* statement.
StartSpawn ==
    /\ startPc = "spawn"
    /\ FreeSlots # {}
    /\ pc' = [pc EXCEPT ![Min(FreeSlots)] = "setup"]
    /\ lastStart' = "None"
    /\ startPc' = "idle"
    /\ UNCHANGED <<running, runningBound, settings, calibration_values,
                   collected_data, gpio_open, eegOffset, startFound,
                   passData, passIdx, lastUpdate, wanted, session, stopPc,
                   emitted, calPc, calSession, calibration_data, calPolls,
                   stopPending, stopIdle, calBefore, calResult>>

\* StopBegin, were it to empty the archive as it clears the flag.
StopBeginResetsArchive ==
    /\ stopPc = "idle"
    /\ running' = FALSE
    /\ runningBound' = TRUE
    /\ stopPc' = "sleeping"
    /\ stopIdle' = ~running
    /\ stopPending' = IF running THEN stopPending \cup {t \in Loops : Alive(t)}
                      ELSE stopPending
    /\ collected_data' = EmptyRows
    /\ UNCHANGED <<settings, calibration_values, gpio_open, eegOffset, startPc, startFound, passData, passIdx, lastUpdate, wanted,
                   pc, session, lastStart, emitted, calPc,
                   calSession, calibration_data, calPolls,
                   calBefore, calResult>>

\* POST /stop-analysis up to time.sleep(1).
StopBegin ==
    /\ stopPc = "idle"
    /\ running' = FALSE
    /\ runningBound' = TRUE
    /\ stopPc' = "sleeping"
    /\ stopIdle' = ~running
    /\ stopPending' = IF running THEN stopPending \cup {t \in Loops : Alive(t)}
                      ELSE stopPending
    /\ UNCHANGED <<settings, calibration_values, collected_data, gpio_open, eegOffset, startPc, startFound, passData, passIdx, lastUpdate, wanted,
                   pc, session, lastStart, emitted, calPc,
                   calSession, calibration_data, calPolls, calBefore, calResult>>

\* POST /stop-analysis after the sleep: cleanup, emit analysis_stopped, return.
StopFinish ==
    /\ stopPc = "sleeping"
    /\ CleanupSpiGpio
    /\ emitted' = AnalysisStopped
    /\ stopPc' = "idle"
    /\ stopIdle' = FALSE
    /\ UNCHANGED <<running, runningBound, settings, calibration_values, collected_data, eegOffset, startPc, startFound, passData, passIdx, lastUpdate, wanted,
                   pc, session, lastStart, calPc, calSession,
                   calibration_data, calPolls, stopPending,
                   calBefore, calResult>>

\* The key of the request body each global is read from.
KeyOf(field) == IF field = "bandpass_enabled" THEN "bandpass_filter_enabled" ELSE field

\* The JSON value of a numeric key: the integer n, the number n + 1/2, or a
\* value float() and int() reject (text that is no number, null).
JInt(n) == [kind |-> "int", n |-> n]
JHalf(n) == [kind |-> "half", n |-> n]
JText == [kind |-> "text", n |-> 0]

\* int(x): truncation toward zero.
ToInt(x) == IF x.kind = "half" /\ x.n < 0 THEN x.n + 1 ELSE x.n
\* float(x): the same number.
ToFloat(x) == IF x.kind = "half" THEN Num(2 * x.n + 1, 2) ELSE Num(x.n, 1)

\* The globals in the order update_settings assigns them (lines 323-331),
\* those it converts, and those the module does not bind.
FieldOrder ==
    << "lowcut", "highcut", "order", "baseline_correction_enabled",
       "enabled_channels", "ref_enabled", "biasout_enabled", "bandpass_enabled",
       "smoothing_enabled" >>
FloatFields == {"lowcut", "highcut"}
IntFields == {"order", "enabled_channels"}
LateFields == {"lowcut", "highcut", "order", "smoothing_enabled"}
Position(f) == CHOOSE i \in 1..Len(FieldOrder) : FieldOrder[i] = f

Present(req, f) == KeyOf(f) \in DOMAIN req

IsBound(st, f) == f \in LateFields => st[f].bound

\* float() or int() raises ValueError or TypeError on the value of the key.
Rejected(req, f) ==
    /\ f \in FloatFields \cup IntFields
    /\ Present(req, f)
    /\ req[KeyOf(f)].kind = "text"

\* The assignments made before a line raises: data.get(key, <the global>)
\* reads the global for its default before it looks at the request, so the
\* line of an unbound global raises NameError whatever the request holds;
\* the line of a bound one raises when float() or int() rejects the value.
Reached(st, req) ==
    LET raising == {i \in 1..Len(FieldOrder) :
                      \/ ~IsBound(st, FieldOrder[i])
                      \/ Rejected(req, FieldOrder[i])}
    IN  IF raising = {} THEN Len(FieldOrder) ELSE Min(raising) - 1

Converted(f, x) ==
    IF f \in FloatFields THEN ToFloat(x)
    ELSE IF f = "order" THEN Num(ToInt(x), 1)
    ELSE IF f = "enabled_channels" THEN ToInt(x)
    ELSE IF f = "smoothing_enabled" THEN Set(x)
    ELSE x

\* The globals after the lines that were reached.
Assigned(st, req) ==
    [f \in DOMAIN st |->
       IF Present(req, f) /\ Position(f) <= Reached(st, req)
       THEN Converted(f, req[KeyOf(f)])
       ELSE st[f]]

\* The globals, had every key of the request that converts been stored.
Asked(st, req) ==
    [f \in DOMAIN st |->
       IF Present(req, f) /\ ~Rejected(req, f)
       THEN Converted(f, req[KeyOf(f)])
       ELSE st[f]]

\* UpdateSettings, were data.get to fall back on the value the module gave
\* the global and not on the global.
UpdateSettingsDefaults(req) ==
    /\ settings' = [f \in DOMAIN settings |->
                      IF Present(req, f) /\ ~Rejected(req, f)
                      THEN Converted(f, req[KeyOf(f)])
                      ELSE InitSettings[f]]
    /\ wanted' = Asked(wanted, req)
    /\ lastUpdate' = "200"
    /\ UNCHANGED <<running, runningBound, calibration_values, collected_data, gpio_open, eegOffset, startPc, startFound, passData, passIdx,
                   pc, session, stopPc, lastStart, emitted, calPc,
                   calSession, calibration_data, calPolls, stopPending, stopIdle, calBefore, calResult>>

\* POST /update-settings: each global takes data.get(key, <the global>),
\* converted by float() or int() where the code converts; a line that raises
\* ends the request with status 500 and the earlier globals assigned.
UpdateSettings(req) ==
    /\ settings' = Assigned(settings, req)
    /\ wanted' = Asked(wanted, req)
    /\ lastUpdate' = IF Reached(settings, req) = Len(FieldOrder) THEN "200" ELSE "500"
    /\ UNCHANGED <<running, runningBound, calibration_values, collected_data, gpio_open, eegOffset, startPc, startFound, passData, passIdx,
                   pc, session, stopPc, lastStart, emitted, calPc,
                   calSession, calibration_data, calPolls, stopPending, stopIdle, calBefore, calResult>>

\* ------------------------------------------- read_eeg_data_brainflow thread
\* A thread that ends: by the normal path with its session released, or in
\* an except clause with the session as it was.
Ended(t, to) ==
    /\ pc' = [pc EXCEPT ![t] = to]
    /\ stopPending' = stopPending \ {t}

\* Lines 218-219: BoardShim(...) and prepare_session().
LoopPrepare(t, raises) ==
    /\ pc[t] = "setup"
    /\ IF raises
       THEN /\ session' = session
            /\ Ended(t, "free")
       ELSE /\ session' = [session EXCEPT ![t] = "prepared"]
            /\ pc' = [pc EXCEPT ![t] = "start"]
            /\ UNCHANGED stopPending
    /\ UNCHANGED <<running, runningBound, settings, calibration_values,
                   collected_data, gpio_open, eegOffset, startPc, startFound,
                   passData, passIdx, lastUpdate, wanted, stopPc, lastStart,
                   emitted, calPc, calSession, calibration_data, calPolls,
                   stopIdle, calBefore, calResult>>

\* Line 220: start_stream(45000, '').
LoopStartStream(t, raises) ==
    /\ pc[t] = "start"
    /\ IF raises
       THEN /\ session' = session
            /\ Ended(t, "dead")
       ELSE /\ session' = [session EXCEPT ![t] = "streaming"]
            /\ pc' = [pc EXCEPT ![t] = "top"]
            /\ UNCHANGED stopPending
    /\ UNCHANGED <<running, runningBound, settings, calibration_values,
                   collected_data, gpio_open, eegOffset, startPc, startFound,
                   passData, passIdx, lastUpdate, wanted, stopPc, lastStart,
                   emitted, calPc, calSession, calibration_data, calPolls,
                   stopIdle, calBefore, calResult>>

\* Line 222: `while running:`.
LoopTop(t) ==
    /\ pc[t] = "top"
    /\ pc' = [pc EXCEPT ![t] = IF running THEN "body" ELSE "stop"]
    /\ UNCHANGED <<running, runningBound, settings, calibration_values,
                   collected_data, gpio_open, eegOffset, startPc, startFound,
                   passData, passIdx, lastUpdate, wanted, session, stopPc,
                   lastStart, emitted, calPc, calSession, calibration_data,
                   calPolls, stopPending, stopIdle, calBefore, calResult>>

\* Line 277: stop_stream(); when it raises the thread ends in an except
\* clause with the board still streaming.
LoopStopStream(t, raises) ==
    /\ pc[t] = "stop"
    /\ IF raises
       THEN /\ session' = session
            /\ Ended(t, "dead")
       ELSE /\ session' = [session EXCEPT ![t] = "stopped"]
            /\ pc' = [pc EXCEPT ![t] = "release"]
            /\ UNCHANGED stopPending
    /\ UNCHANGED <<running, runningBound, settings, calibration_values,
                   collected_data, gpio_open, eegOffset, startPc, startFound,
                   passData, passIdx, lastUpdate, wanted, stopPc, lastStart,
                   emitted, calPc, calSession, calibration_data, calPolls,
                   stopIdle, calBefore, calResult>>

\* Line 278: release_session(); when it raises the thread ends in an except
\* clause with the board stopped and not released.
LoopRelease(t, raises) ==
    /\ pc[t] = "release"
    /\ IF raises
       THEN /\ session' = session
            /\ Ended(t, "dead")
       ELSE /\ session' = [session EXCEPT ![t] = "none"]
            /\ Ended(t, "free")
    /\ UNCHANGED <<running, runningBound, settings, calibration_values,
                   collected_data, gpio_open, eegOffset, startPc, startFound,
                   passData, passIdx, lastUpdate, wanted, stopPc, lastStart,
                   emitted, calPc, calSession, calibration_data, calPolls,
                   stopIdle, calBefore, calResult>>

\* One pass of the loop body on the window w that get_current_board_data
\* returns, up to line 265; ret says how far the filter calls got on each
\* row and `above` is the outcome of ref_mean > 1000.  Line 265 binds the
\* global collected_data to fresh empty lists.
LoopIterate(t, w, ret, above) ==
    /\ pc[t] = "body"
    /\ IF WinLen(w) = 0
       THEN \* `continue`
            /\ pc' = [pc EXCEPT ![t] = "top"]
            /\ UNCHANGED <<collected_data, passData, passIdx, stopPending>>
       ELSE IF settings.baseline_correction_enabled /\ BaselineRaises(calibration_values)
       THEN \* IndexError, caught by `except Exception` outside the loop
            /\ Ended(t, "dead")
            /\ UNCHANGED <<collected_data, passData, passIdx>>
       ELSE LET p == Processed(w, settings, calibration_values, eegOffset, ret, above)
            IN  /\ above \in RefMeanAbove(
                              Corrected(Filtered([r \in Rows |-> RawRow(w[r])],
                                                 settings, eegOffset, ret),
                                        settings, calibration_values)[1])
                /\ passData' = [passData EXCEPT ![t] = p]
                /\ passIdx' = [passIdx EXCEPT ![t] = 1]
                /\ collected_data' = Reset(collected_data)
                /\ pc' = [pc EXCEPT ![t] = "archive"]
                /\ UNCHANGED stopPending
    /\ UNCHANGED <<running, runningBound, settings, calibration_values, gpio_open, eegOffset, startPc, startFound, lastUpdate, wanted,
                   session, stopPc, lastStart, emitted, calPc, calSession,
                   calibration_data, calPolls, stopIdle, calBefore, calResult>>

\* One turn of `for idx, channel_data in enumerate(data_transposed)`, lines
\* 267-268: the list the global collected_data holds at index idx at that
\* moment is extended with the thread's row.
LoopExtend(t) ==
    /\ pc[t] = "archive"
    /\ collected_data' = Extend(collected_data, passIdx[t], passData[t])
    /\ IF passIdx[t] = NumEEG
       THEN /\ pc' = [pc EXCEPT ![t] = "emit"]
            /\ passIdx' = [passIdx EXCEPT ![t] = 1]
       ELSE /\ pc' = pc
            /\ passIdx' = [passIdx EXCEPT ![t] = @ + 1]
    /\ UNCHANGED <<running, runningBound, settings, calibration_values, gpio_open, eegOffset, startPc, startFound, lastUpdate, wanted,
                   passData, session, stopPc, lastStart, emitted, calPc, calSession,
                   calibration_data, calPolls, stopPending, stopIdle, calBefore, calResult>>

\* Lines 272-275: the first value of each row of the thread's
\* data_transposed is emitted as update_data, then time.sleep(1).
LoopEmit(t) ==
    /\ pc[t] = "emit"
    /\ emitted' = UpdateData(Payload(passData[t]))
    /\ passData' = [passData EXCEPT ![t] = <<>>]
    /\ pc' = [pc EXCEPT ![t] = "sleep"]
    /\ UNCHANGED <<running, runningBound, settings, calibration_values, collected_data, gpio_open,
                   eegOffset, startPc, startFound, lastUpdate, wanted, passIdx, session, stopPc, lastStart, calPc,
                   calSession, calibration_data, calPolls, stopPending, stopIdle, calBefore, calResult>>

\* get_current_board_data raises: the thread ends in the except clause.
LoopPollRaises(t) ==
    /\ pc[t] = "body"
    /\ Ended(t, "dead")
    /\ UNCHANGED <<running, runningBound, settings, calibration_values, collected_data, gpio_open,
                   eegOffset, startPc, startFound, passData, passIdx, lastUpdate, wanted, session, stopPc, lastStart, emitted,
                   calPc, calSession, calibration_data, calPolls, stopIdle, calBefore, calResult>>

\* time.sleep(1) returns.
LoopWake(t) ==
    /\ pc[t] = "sleep"
    /\ pc' = [pc EXCEPT ![t] = "top"]
    /\ UNCHANGED <<running, runningBound, settings, calibration_values, collected_data, gpio_open,
                   eegOffset, startPc, startFound, passData, passIdx, lastUpdate, wanted, session, stopPc, lastStart, emitted,
                   calPc, calSession, calibration_data, calPolls, stopPending, stopIdle, calBefore, calResult>>

\* ------------------------------------------------------------ calibrate()
\* The run ends in an except clause: nothing after the raise is executed.
CalFails(how) ==
    /\ calPc' = "idle"
    /\ calResult' = how

\* Lines 346-348: BoardShim(...) and prepare_session().
CalBegin(raises) ==
    /\ calPc = "idle"
    /\ calBefore' = calibration_values
    /\ IF raises
       THEN /\ calSession' = "none"
            /\ CalFails("failed_setup")
       ELSE /\ calSession' = "prepared"
            /\ calPc' = "start"
            /\ calResult' = "running"
    /\ UNCHANGED <<running, runningBound, settings, calibration_values,
                   collected_data, gpio_open, eegOffset, startPc, startFound,
                   passData, passIdx, lastUpdate, wanted, pc, session,
                   stopPc, lastStart, emitted, calibration_data, calPolls,
                   stopPending, stopIdle>>

\* Line 349: start_stream(45000, '').
CalStartStream(raises) ==
    /\ calPc = "start"
    /\ IF raises
       THEN /\ calSession' = calSession
            /\ CalFails("failed_setup")
       ELSE /\ calSession' = "streaming"
            /\ calPc' = "init"
            /\ calResult' = calResult
    /\ UNCHANGED <<running, runningBound, settings, calibration_values,
                   collected_data, gpio_open, eegOffset, startPc, startFound,
                   passData, passIdx, lastUpdate, wanted, pc, session,
                   stopPc, lastStart, emitted, calibration_data, calPolls,
                   stopPending, stopIdle, calBefore>>

\* Lines 351-354: calibration_data = [[] for _ in range(enabled_channels)].
CalInit ==
    /\ calPc = "init"
    /\ calibration_data' = [i \in 1..settings.enabled_channels |-> <<>>]
    /\ calPolls' = 0
    /\ calPc' = "sampling"
    /\ UNCHANGED <<running, runningBound, settings, calibration_values,
                   collected_data, gpio_open, eegOffset, startPc, startFound,
                   passData, passIdx, lastUpdate, wanted, pc, session,
                   stopPc, lastStart, emitted, calSession, stopPending,
                   stopIdle, calBefore, calResult>>

\* calibration_data after `calibration_data[idx].extend(channel_data)` for
\* the rows idx that exist in it.
Extended(cd, w) ==
    [i \in 1..Len(cd) |-> IF i \in Rows THEN cd[i] \o w[i] ELSE cd[i]]

\* One pass of the sampling loop on the window w: an empty window is skipped;
\* with fewer lists than rows the IndexError ends the run after the lists
\* that exist were extended.
CalPoll(w) ==
    /\ calPc = "sampling"
    /\ calPolls < MaxCalPolls
    /\ calPolls' = calPolls + 1
    /\ IF WinLen(w) = 0
       THEN UNCHANGED <<calibration_data, calPc, calResult>>
       ELSE /\ calibration_data' = Extended(calibration_data, w)
            /\ IF Len(calibration_data) < NumEEG
               THEN CalFails("failed_sampling")
               ELSE UNCHANGED <<calPc, calResult>>
    /\ UNCHANGED <<running, runningBound, settings, calibration_values, collected_data, gpio_open,
                   eegOffset, startPc, startFound, passData, passIdx, lastUpdate, wanted, pc, session, stopPc, lastStart,
                   emitted, calSession, stopPending, stopIdle,
                   calBefore>>

\* get_current_board_data raises during sampling.
CalPollRaises ==
    /\ calPc = "sampling"
    /\ CalFails("failed_sampling")
    /\ UNCHANGED <<running, runningBound, settings, calibration_values, collected_data, gpio_open,
                   eegOffset, startPc, startFound, passData, passIdx, lastUpdate, wanted, pc, session, stopPc, lastStart,
                   emitted, calSession, calibration_data, calPolls, stopPending, stopIdle, calBefore>>

\* calibration_values = [np.mean(ch_data) for ch_data in calibration_data]
MeanVector(cd) == [i \in 1..Len(cd) |-> NpMean(cd[i])]

\* The 5 seconds are over, line 367: the means of the lists are stored,
\* nan for a list that got no reading.
CalStore ==
    /\ calPc = "sampling"
    /\ calibration_values' = MeanVector(calibration_data)
    /\ calPc' = "stop"
    /\ UNCHANGED <<running, runningBound, settings, collected_data,
                   gpio_open, eegOffset, startPc, startFound, passData,
                   passIdx, lastUpdate, wanted, pc, session, stopPc,
                   lastStart, emitted, calSession, calibration_data,
                   calPolls, stopPending, stopIdle, calBefore, calResult>>

\* Line 370: stop_stream(); when it raises the run ends in an except clause
\* with the board still streaming.
CalStopStream(raises) ==
    /\ calPc = "stop"
    /\ IF raises
       THEN /\ calSession' = calSession
            /\ CalFails("failed_teardown")
       ELSE /\ calSession' = "stopped"
            /\ calPc' = "release"
            /\ calResult' = calResult
    /\ UNCHANGED <<running, runningBound, settings, calibration_values,
                   collected_data, gpio_open, eegOffset, startPc, startFound,
                   passData, passIdx, lastUpdate, wanted, pc, session,
                   stopPc, lastStart, emitted, calibration_data, calPolls,
                   stopPending, stopIdle, calBefore>>

\* Line 371: release_session(); when it raises the run ends in an except
\* clause with the board stopped and not released.
CalRelease(raises) ==
    /\ calPc = "release"
    /\ calPc' = "idle"
    /\ IF raises
       THEN /\ calSession' = calSession
            /\ calResult' = "failed_teardown"
       ELSE /\ calSession' = "none"
            /\ calResult' = "done"
    /\ UNCHANGED <<running, runningBound, settings, calibration_values,
                   collected_data, gpio_open, eegOffset, startPc, startFound,
                   passData, passIdx, lastUpdate, wanted, pc, session,
                   stopPc, lastStart, emitted, calibration_data, calPolls,
                   stopPending, stopIdle, calBefore>>

\* --------------------------------------------------------- specifications
\* Windows the board delivers under Spec: none or one reading per row, the
\* same on every row.
CtlVals == {1}
CtlWindows == {[r \in Rows |-> s] : s \in {<<>>} \cup {<<x>> : x \in CtlVals}}

\* Values of enabled_channels a request sets: fewer rows than the board
\* delivers, as many, and more.
EnabledChoices == 1..(NumEEG + 1)

\* ------------------------------------------------------ main.py (part_001)
MainInit ==
    /\ is_streaming = FALSE
    /\ board = 0
    /\ boards = <<>>
    /\ mpc = [t \in Loops |-> "free"]
    /\ mreq = [q \in Requests |-> "idle"]
    /\ mainEmitted = <<>>
    /\ mainReply = "none"

MainFree == {t \in Loops : mpc[t] = "free"}

\* What get_current_board_data(1)[eeg_channels] can be: no reading or one
\* per row.
MainWindows == UNION {[Rows -> [1..n -> RawVals]] : n \in 0..1}

\* The request thread q goes on to the line `to`.
MainGoes(q, to) == mreq' = [mreq EXCEPT ![q] = to] /\ mainReply' = mainReply

\* The request thread q ends: with the reply of the handler's return, or
\* with an error reply when a call raised.
MainReplies(q, reply) == mreq' = [mreq EXCEPT ![q] = "idle"] /\ mainReply' = reply

\* A library call on the board the global names at the moment of the call:
\* it raises and leaves the session as it is, or returns with the session in
\* the state `to`.
MainCall(raises, to) ==
    boards' = IF raises THEN boards ELSE [boards EXCEPT ![board] = to]

\* POST /start-analysis, taken by the request thread q, up to line 137 of
\* init_board: board = BoardShim(board_id, params).  When the constructor
\* raises, the global keeps the board it named.
MainStartAnalysis(q, raises) ==
    /\ mreq[q] = "idle"
    /\ IF raises
       THEN MainReplies(q, "error") /\ UNCHANGED <<board, boards>>
       ELSE /\ boards' = Append(boards, "new")
            /\ board' = Len(boards) + 1
            /\ MainGoes(q, "prepare")
    /\ UNCHANGED <<is_streaming, mpc, mainEmitted>>

\* init_board, line 138: board.prepare_session().
MainPrepare(q, raises) ==
    /\ mreq[q] = "prepare"
    /\ MainCall(raises, "prepared")
    /\ IF raises THEN MainReplies(q, "error") ELSE MainGoes(q, "test")
    /\ UNCHANGED <<is_streaming, board, mpc, mainEmitted>>

\* start_stream, line 142: `if not is_streaming:`; with the flag set the
\* handler returns 200.
MainTestStreaming(q) ==
    /\ mreq[q] = "test"
    /\ IF is_streaming THEN MainReplies(q, "200") ELSE MainGoes(q, "set")
    /\ UNCHANGED <<is_streaming, board, boards, mpc, mainEmitted>>

\* start_stream, line 143: is_streaming = True.
MainSetStreaming(q) ==
    /\ mreq[q] = "set"
    /\ is_streaming' = TRUE
    /\ MainGoes(q, "stream")
    /\ UNCHANGED <<board, boards, mpc, mainEmitted>>

\* start_stream, line 144: board.start_stream().
MainStartStream(q, raises) ==
    /\ mreq[q] = "stream"
    /\ MainCall(raises, "streaming")
    /\ IF raises THEN MainReplies(q, "error") ELSE MainGoes(q, "spawn")
    /\ UNCHANGED <<is_streaming, board, mpc, mainEmitted>>

\* start_stream, line 145: the stream_data thread is started; the handler
\* returns 200.
MainSpawn(q) ==
    /\ mreq[q] = "spawn"
    /\ MainFree # {}
    /\ mpc' = [mpc EXCEPT ![Min(MainFree)] = "top"]
    /\ MainReplies(q, "200")
    /\ UNCHANGED <<is_streaming, board, boards, mainEmitted>>

\* POST /stop-analysis, taken by the request thread q, up to line 149 of
\* stop_stream: `if is_streaming:`; with the flag clear the handler returns
\* 200.
MainStopAnalysis(q) ==
    /\ mreq[q] = "idle"
    /\ IF is_streaming THEN MainGoes(q, "clear") ELSE MainReplies(q, "200")
    /\ UNCHANGED <<is_streaming, board, boards, mpc, mainEmitted>>

\* stop_stream, line 150: is_streaming = False.
MainClearStreaming(q) ==
    /\ mreq[q] = "clear"
    /\ is_streaming' = FALSE
    /\ MainGoes(q, "stop")
    /\ UNCHANGED <<board, boards, mpc, mainEmitted>>

\* stop_stream, line 151: board.stop_stream().
MainStopStream(q, raises) ==
    /\ mreq[q] = "stop"
    /\ MainCall(raises, "stopped")
    /\ IF raises THEN MainReplies(q, "error") ELSE MainGoes(q, "release")
    /\ UNCHANGED <<is_streaming, board, mpc, mainEmitted>>

\* stop_stream, line 152: board.release_session(); the handler returns 200.
MainRelease(q, raises) ==
    /\ mreq[q] = "release"
    /\ MainCall(raises, "released")
    /\ MainReplies(q, IF raises THEN "error" ELSE "200")
    /\ UNCHANGED <<is_streaming, board, mpc, mainEmitted>>

\* stream_data: `while is_streaming:`
MainLoopTop(t) ==
    /\ mpc[t] = "top"
    /\ mpc' = [mpc EXCEPT ![t] = IF is_streaming THEN "poll" ELSE "free"]
    /\ UNCHANGED <<is_streaming, board, boards, mreq, mainEmitted, mainReply>>

\* stream_data: get_current_board_data(1) on the global board, then the emit
\* of every row as a list; `raises` ends the thread (nothing catches it).
MainLoopPoll(t, w, raises) ==
    /\ mpc[t] = "poll"
    /\ IF raises
       THEN /\ mpc' = [mpc EXCEPT ![t] = "free"]
            /\ UNCHANGED mainEmitted
       ELSE /\ mpc' = [mpc EXCEPT ![t] = "sleep"]
            /\ mainEmitted' = <<w>>
    /\ UNCHANGED <<is_streaming, board, boards, mreq, mainReply>>

\* stream_data: time.sleep(0.01) returns.
MainLoopWake(t) ==
    /\ mpc[t] = "sleep"
    /\ mpc' = [mpc EXCEPT ![t] = "top"]
    /\ UNCHANGED <<is_streaming, board, boards, mreq, mainEmitted, mainReply>>

\* ------------------------------------------------------------ export_data
\* csv.writer writes one cell per value, as text.
Cell(x) == [text |-> x]

\* The length of the shortest list of data: the number of tuples zip(*data)
\* yields.
MinLen(data) ==
    IF Len(data) = 0 THEN 0 ELSE Min({Len(data[i]) : i \in 1..Len(data)})

\* create_csv(data): the header 'Channel1', 'Channel2', ..., one per list,
\* then one row per tuple of zip(*data).
CreateCsv(data) ==
    [header |-> [i \in 1..Len(data) |-> [channel |-> i]],
     rows |-> [k \in 1..MinLen(data) |->
                 [i \in 1..Len(data) |-> Cell(data[i][k])]]]

\* SliceTo, were the slice to include index k.
SliceInclusive(ch, k) ==
    LET n == IF k + 1 >= 0 THEN (IF k + 1 > Len(ch) THEN Len(ch) ELSE k + 1)
             ELSE (IF Len(ch) + k + 1 > 0 THEN Len(ch) + k + 1 ELSE 0)
    IN  [i \in 1..n |-> ch[i]]

\* Python's ch[:k]: the first k elements, all of ch when k is larger, and all
\* but the last -k for a negative k.
SliceTo(ch, k) ==
    LET n == IF k >= 0 THEN (IF k > Len(ch) THEN Len(ch) ELSE k)
             ELSE (IF Len(ch) + k > 0 THEN Len(ch) + k ELSE 0)
    IN  [i \in 1..n |-> ch[i]]

NoCsv == [header |-> <<>>, rows |-> <<>>]
NoReply == [arg |-> JInt(0), n |-> 0, status |-> 0, body |-> NoCsv]

\* The answer of the except clause: 500.
ExportFails(x) ==
    /\ exportReply' = [arg |-> x, n |-> x.n, status |-> 500, body |-> NoCsv]
    /\ exportPc' = "idle"
    /\ UNCHANGED <<exportArg, exportN>>

\* GET /export-data?num_rows=x up to line 402: int() of a text that is no
\* integer raises ValueError, collected_data[0] on an empty list raises
\* IndexError; then `if num_rows > len(collected_data[0])`.
ExportData(x) ==
    /\ exportPc = "idle"
    /\ IF x.kind # "int" \/ Len(collected_data) = 0
       THEN ExportFails(x)
       ELSE /\ exportArg' = x
            /\ exportN' = x.n
            /\ exportPc' = IF x.n > Len(collected_data[1]) THEN "clamp" ELSE "slice"
            /\ UNCHANGED exportReply
    /\ UNCHANGED server_vars

\* Line 403: num_rows = len(collected_data[0]), of the list the global
\* holds at that moment.
ExportClamp ==
    /\ exportPc = "clamp"
    /\ exportN' = Len(collected_data[1])
    /\ exportPc' = "slice"
    /\ UNCHANGED <<server_vars, exportReply, exportArg>>

\* Lines 404-409: every list the global holds at that moment is sliced with
\* num_rows and the csv is returned.
ExportSlice ==
    /\ exportPc = "slice"
    /\ exportReply' =
         [arg |-> exportArg, n |-> exportArg.n, status |-> 200,
          body |-> CreateCsv([i \in 1..Len(collected_data) |->
                                SliceTo(collected_data[i], exportN)])]
    /\ exportPc' = "idle"
    /\ UNCHANGED <<server_vars, exportArg, exportN>>

ExportInit ==
    /\ exportReply = NoReply
    /\ exportPc = "idle"
    /\ exportArg = JInt(0)
    /\ exportN = 0

\* ------------------------------------------------------ app.js (part_000)
\* if (eegChart.data.labels.length > 100)
MaxPoints == 100

\* The labels createChart gives the series, and the data-label attributes of
\* the color boxes of index.html: 'REF', 'BIASOUT', 'Ch1', 'Ch2', ...
RefLabel == [kind |-> "REF", n |-> 0]
BiasoutLabel == [kind |-> "BIASOUT", n |-> 0]
ChLabel(i) == [kind |-> "Ch", n |-> i]
BoxLabels == {RefLabel, BiasoutLabel} \cup {ChLabel(i) : i \in Rows}

\* A dataset as createChart pushes it: no `hidden` property.
NewSeries(label) == [label |-> label, data |-> <<>>, hidden |-> "undefined"]

\* CreateChart, were the loop to run `i <= enabledChannels`.
CreateChartInclusive(inp) ==
    [labels |-> <<>>,
     datasets |->
        (IF inp.ref_enabled THEN <<NewSeries(RefLabel)>> ELSE <<>>)
        \o (IF inp.biasout_enabled THEN <<NewSeries(BiasoutLabel)>> ELSE <<>>)
        \o [i \in 1..(inp.enabled_channels + 1) |-> NewSeries(ChLabel(i))]]

\* createChart(): REF and BIASOUT when their boxes are checked, then Ch1 ..
\* Ch<enabled_channels>; no labels, no points.
CreateChart(inp) ==
    [labels |-> <<>>,
     datasets |->
        (IF inp.ref_enabled THEN <<NewSeries(RefLabel)>> ELSE <<>>)
        \o (IF inp.biasout_enabled THEN <<NewSeries(BiasoutLabel)>> ELSE <<>>)
        \o [i \in 1..inp.enabled_channels |-> NewSeries(ChLabel(i))]]

\* The inputs as index.html declares them: 8 channels (all of them here), REF
\* and BIASOUT checked, baseline correction checked, band-pass not.
PageInputs ==
    [enabled_channels |-> NumEEG, ref_enabled |-> TRUE, biasout_enabled |-> TRUE,
     baseline_correction_enabled |-> TRUE, bandpass_filter_enabled |-> FALSE]

\* updateSettings() ends in `if (acquisition_method === "brainflow")`: no
\* script and no element of the page defines acquisition_method, and
\* disableSpiSettings / enableSpiSettings are defined nowhere, so the call
\* throws a ReferenceError after createChart() and the fetch.
UpdateSettingsThrows == TRUE

\* Click handlers on every color box once the page is loaded.  The first
\* DOMContentLoaded listener calls updateSettings() before it registers its
\* handlers and is left when that throws; the second listener registers its
\* own.
ClickHandlers == IF UpdateSettingsThrows THEN 1 ELSE 2

\* Not, were the handler to assign `true` instead of the negation.
AlwaysHide(h) == "true"

\* !dataset.hidden
Not(h) == IF h = "true" THEN "false" ELSE "true"

RECURSIVE ToggleTimes(_, _)
ToggleTimes(h, k) == IF k = 0 THEN h ELSE ToggleTimes(Not(h), k - 1)

\* The flag as Chart.js reads it: a series is hidden when its hidden property
\* is truthy; undefined and false both show it.
Hidden(h) == h = "true"

NoClick == [label |-> [kind |-> "none", n |-> 0], hidden |-> "none", data |-> <<>>]

\* eegChart.data.datasets.find(ds => ds.label === label): its index, 0 when
\* there is none.
FindSeries(c, label) ==
    IF \E i \in 1..Len(c.datasets) : c.datasets[i].label = label
    THEN CHOOSE i \in 1..Len(c.datasets) :
           /\ c.datasets[i].label = label
           /\ \A j \in 1..(i - 1) : c.datasets[j].label # label
    ELSE 0

ClientInit ==
    /\ inputs = PageInputs
    /\ chart = CreateChart(PageInputs)
    /\ controlsDisabled = FALSE
    /\ calText = "Start Calibration"
    /\ calPending = 0
    /\ startPending = 0
    /\ clientTick = 0
    /\ clientState = "Stopped"
    /\ beforeClick = NoClick

\* ClickBox, were both DOMContentLoaded listeners to register their handler.
ClickBoxTwice(label) ==
    LET i == FindSeries(chart, label)
    IN  /\ chart' = IF i = 0 THEN chart
                    ELSE [chart EXCEPT !.datasets[i].hidden = ToggleTimes(@, 2)]
        /\ beforeClick' = IF i = 0 THEN [NoClick EXCEPT !.label = label]
                          ELSE [label |-> label, hidden |-> chart.datasets[i].hidden,
                                data |-> chart.datasets[i].data]
        /\ UNCHANGED <<inputs, controlsDisabled, calText, calPending, startPending,
                       clientTick, clientState>>

\* A click on the color box with data-label `label`: every registered handler
\* negates the hidden property of the series with that label, if there is one.
ClickBox(label) ==
    LET i == FindSeries(chart, label)
    IN  /\ chart' = IF i = 0 THEN chart
                    ELSE [chart EXCEPT !.datasets[i].hidden = ToggleTimes(@, ClickHandlers)]
        /\ beforeClick' = IF i = 0 THEN [NoClick EXCEPT !.label = label]
                          ELSE [label |-> label, hidden |-> chart.datasets[i].hidden,
                                data |-> chart.datasets[i].data]
        /\ UNCHANGED <<inputs, controlsDisabled, calText, calPending, startPending,
                       clientTick, clientState>>

\* socket.on('update_data'): with more than 100 labels the first label and
\* the first point of every series are shifted out; then the label is pushed
\* and series number index gets the point {x, y: raw[index]} when raw has an
\* entry for it.
OnUpdateData(raw) ==
    LET full == Len(chart.labels) > MaxPoints
        now == clientTick + 1
        kept(d) == IF full /\ d # <<>> THEN Tail(d) ELSE d
    IN  /\ chart' =
              [labels |-> Append(kept(chart.labels), now),
               datasets |->
                  [i \in 1..Len(chart.datasets) |->
                     [chart.datasets[i] EXCEPT
                        !.data = IF Len(raw) > i - 1
                                 THEN Append(kept(@), [x |-> now, y |-> raw[i]])
                                 ELSE kept(@)]]]
        /\ clientTick' = now
        /\ beforeClick' = NoClick
        /\ UNCHANGED <<inputs, controlsDisabled, calText, calPending, startPending,
                       clientState>>

\* The user changes one of the five inputs (they are disabled while
\* disableControls(true) is in force): oninput / onchange calls
\* updateSettings(), which calls createChart() and posts the settings.
ChangeInput(field, value) ==
    /\ ~controlsDisabled
    /\ inputs[field] # value
    /\ inputs' = [inputs EXCEPT ![field] = value]
    /\ chart' = CreateChart(inputs')
    /\ beforeClick' = NoClick
    /\ UNCHANGED <<controlsDisabled, calText, calPending, startPending, clientTick,
                   clientState>>

\* disableControls(disable): startBtn, calibrateBtn, exportBtn and the five
\* inputs get disabled = disable, stopBtn gets disabled = !disable.
DisableControls(disable) == controlsDisabled' = disable

\* A click on startBtn (enabled): startAnalysis().
ClickStart ==
    /\ ~controlsDisabled
    /\ DisableControls(TRUE)
    /\ startPending' = startPending + 1
    /\ clientState' = "Running"
    /\ beforeClick' = NoClick
    /\ UNCHANGED <<inputs, chart, calText, calPending, clientTick>>

\* The answer to a POST /start-analysis arrives: only 409 is acted on.
StartAnswered(status) ==
    /\ startPending > 0
    /\ startPending' = startPending - 1
    /\ IF status = "409"
       THEN DisableControls(FALSE) /\ clientState' = "Stopped"
       ELSE UNCHANGED <<controlsDisabled, clientState>>
    /\ beforeClick' = NoClick
    /\ UNCHANGED <<inputs, chart, calText, calPending, clientTick>>

\* A click on stopBtn (enabled while the other controls are disabled):
\* stopAnalysis().
ClickStop ==
    /\ controlsDisabled
    /\ DisableControls(FALSE)
    /\ clientState' = "Stopped"
    /\ beforeClick' = NoClick
    /\ UNCHANGED <<inputs, chart, calText, calPending, startPending, clientTick>>

\* A click on calibrateBtn (enabled): startCalibration().
ClickCalibrate ==
    /\ ~controlsDisabled
    /\ DisableControls(TRUE)
    /\ calText' = "Calibrating..."
    /\ calPending' = calPending + 1
    /\ clientState' = "Calibrating"
    /\ beforeClick' = NoClick
    /\ UNCHANGED <<inputs, chart, startPending, clientTick>>

\* The fetch of /calibrate settles: the .then and the .catch branch both
\* restore the button text and call disableControls(false).
CalibrationSettles ==
    /\ calPending > 0
    /\ calPending' = calPending - 1
    /\ calText' = "Start Calibration"
    /\ DisableControls(FALSE)
    /\ clientState' = "Stopped"
    /\ beforeClick' = NoClick
    /\ UNCHANGED <<inputs, chart, startPending, clientTick>>

\* calibration_values = [0] * 8
ServerInit == ServerInitFrom(ZeroVector)

Init == ServerInit /\ MainInit /\ ExportInit /\ ClientInit

\* A step of the Flask server leaves main.py and the browser alone, and the
\* other way round.
Server(A) == A /\ UNCHANGED <<main_vars, export_vars, client_vars>>
Main(A) == A /\ UNCHANGED <<server_vars, export_vars, client_vars>>

\* The start and stop handlers and the loop threads.  The board delivers no
\* reading to the loop threads here, so that a pass ends at the `continue`
\* of line 231 and never reaches time.sleep(1) (what a pass does with a
\* window that has data is in SpecBuf, SpecData and SpecExport).
NoReading == [r \in Rows |-> <<>>]

Next ==
    \/ Server(StartBegin)
    \/ Server(StartCleanup)
    \/ \E conflict \in BOOLEAN : Server(StartCheck(conflict))
    \/ Server(StartSpawn)
    \/ Server(StopBegin)
    \/ Server(StopFinish)
    \/ \E t \in Loops, raises \in BOOLEAN : Server(LoopPrepare(t, raises))
    \/ \E t \in Loops, raises \in BOOLEAN : Server(LoopStartStream(t, raises))
    \/ \E t \in Loops : Server(LoopTop(t))
    \/ \E t \in Loops, raises \in BOOLEAN : Server(LoopStopStream(t, raises))
    \/ \E t \in Loops, raises \in BOOLEAN : Server(LoopRelease(t, raises))
    \/ \E t \in Loops, above \in BOOLEAN :
         Server(LoopIterate(t, NoReading, AllReturn, above))
    \/ \E t \in Loops : Server(LoopPollRaises(t))

Spec == Init /\ [][Next]_vars

\* calibrate() next to the stream: start requests made while no loop thread
\* is alive, stop requests, the loop threads and the calibration run.
HoldNext ==
    \/ (\A t \in Loops : ~Alive(t)) /\ Server(StartBegin)
    \/ Server(StartCleanup)
    \/ \E conflict \in BOOLEAN : Server(StartCheck(conflict))
    \/ Server(StartSpawn)
    \/ Server(StopBegin)
    \/ Server(StopFinish)
    \/ \E t \in Loops, raises \in BOOLEAN : Server(LoopPrepare(t, raises))
    \/ \E t \in Loops, raises \in BOOLEAN : Server(LoopStartStream(t, raises))
    \/ \E t \in Loops : Server(LoopTop(t))
    \/ \E t \in Loops, raises \in BOOLEAN : Server(LoopStopStream(t, raises))
    \/ \E t \in Loops, raises \in BOOLEAN : Server(LoopRelease(t, raises))
    \/ \E t \in Loops, above \in BOOLEAN :
         Server(LoopIterate(t, NoReading, AllReturn, above))
    \/ \E t \in Loops : Server(LoopPollRaises(t))
    \/ \E raises \in BOOLEAN : Server(CalBegin(raises))
    \/ \E raises \in BOOLEAN : Server(CalStartStream(raises))
    \/ Server(CalInit)
    \/ \E w \in CtlWindows : Server(CalPoll(w))
    \/ Server(CalPollRaises)
    \/ Server(CalStore)
    \/ \E raises \in BOOLEAN : Server(CalStopStream(raises))
    \/ \E raises \in BOOLEAN : Server(CalRelease(raises))

SpecHold == Init /\ [][HoldNext]_vars

\* The start and stop handlers and the loop threads, with the scheduling
\* Python gives them: a thread that can take a step takes one, a sleep
\* ends, and a handler that has begun runs to its return.  Requests may or
\* may not arrive.
LoopStep(t) ==
    \/ \E raises \in BOOLEAN : Server(LoopPrepare(t, raises))
    \/ \E raises \in BOOLEAN : Server(LoopStartStream(t, raises))
    \/ Server(LoopTop(t))
    \/ \E raises \in BOOLEAN : Server(LoopStopStream(t, raises))
    \/ \E raises \in BOOLEAN : Server(LoopRelease(t, raises))
    \/ \E w \in CtlWindows, above \in BOOLEAN :
         Server(LoopIterate(t, w, AllReturn, above))
    \/ Server(LoopExtend(t))
    \/ Server(LoopEmit(t))
    \/ Server(LoopPollRaises(t))
    \/ Server(LoopWake(t))

\* The steps of a start request that has begun.
StartStep ==
    \/ Server(StartCleanup)
    \/ \E conflict \in BOOLEAN : Server(StartCheck(conflict))
    \/ Server(StartSpawn)

FairNext ==
    \/ Server(StartBegin)
    \/ StartStep
    \/ Server(StopBegin)
    \/ Server(StopFinish)
    \/ \E t \in Loops : LoopStep(t)

FairSpec ==
    /\ Init
    /\ [][FairNext]_vars
    /\ \A t \in Loops : WF_vars(LoopStep(t))
    /\ WF_vars(StartStep)
    /\ WF_vars(Server(StopFinish))

\* calibrate() and the enabled_channels setting on their own; the board
\* delivers no reading or one per row.
CalWindows == {[r \in Rows |-> s] : s \in {<<>>} \cup {<<x>> : x \in RawVals}}
CalRequests == {[enabled_channels |-> JInt(n)] : n \in EnabledChoices}

CalNext ==
    \/ \E req \in CalRequests : Server(UpdateSettings(req))
    \/ \E raises \in BOOLEAN : Server(CalBegin(raises))
    \/ \E raises \in BOOLEAN : Server(CalStartStream(raises))
    \/ Server(CalInit)
    \/ \E w \in CalWindows : Server(CalPoll(w))
    \/ Server(CalPollRaises)
    \/ Server(CalStore)
    \/ \E raises \in BOOLEAN : Server(CalStopStream(raises))
    \/ \E raises \in BOOLEAN : Server(CalRelease(raises))

SpecCal == Init /\ [][CalNext]_vars

\* The loop's processing on one stream that is started, on an idle server
\* with no conflict, and not stopped: the loop thread and the two filter
\* switches, from a vector calibrate() can have stored.
DataWindows ==
    {[r \in Rows |-> s] : s \in UNION {[1..n -> RawVals] : n \in 0..MaxWin}}
DataRequests ==
    {[bandpass_filter_enabled |-> b] : b \in BOOLEAN}
    \cup {[baseline_correction_enabled |-> b] : b \in BOOLEAN}
DataVectors ==
    {ZeroVector, MeanVector([r \in Rows |-> <<1, 2000>>])}

\* The filter calls are made only when band-pass is enabled.
DataReturns ==
    IF settings.bandpass_enabled THEN [Rows -> FilterReturns] ELSE {AllReturn}

DataInit ==
    /\ \E cal \in DataVectors : ServerInitFrom(cal)
    /\ MainInit /\ ExportInit /\ ClientInit

DataNext ==
    \/ ~running /\ Server(StartBegin)
    \/ Server(StartCleanup)
    \/ Server(StartCheck(FALSE))
    \/ Server(StartSpawn)
    \/ \E req \in DataRequests : Server(UpdateSettings(req))
    \/ \E t \in Loops, raises \in BOOLEAN : Server(LoopPrepare(t, raises))
    \/ \E t \in Loops, raises \in BOOLEAN : Server(LoopStartStream(t, raises))
    \/ \E t \in Loops : Server(LoopTop(t))
    \/ \E t \in Loops, w \in DataWindows, ret \in DataReturns, above \in BOOLEAN :
         Server(LoopIterate(t, w, ret, above))
    \/ \E t \in Loops : Server(LoopExtend(t))
    \/ \E t \in Loops : Server(LoopEmit(t))
    \/ \E t \in Loops : Server(LoopPollRaises(t))
    \/ \E t \in Loops : Server(LoopWake(t))

SpecData == DataInit /\ [][DataNext]_vars

\* The loop's processing of constant signals, from a vector calibrate() has
\* stored from such a signal.
OffsetVectors == {[r \in Rows |-> Rat(v, 1)] : v \in RawVals}
OffsetWindows ==
    {[r \in Rows |-> [i \in 1..n |-> v]] : v \in RawVals, n \in 1..MaxWin}

OffsetInit ==
    /\ \E cal \in OffsetVectors : ServerInitFrom(cal)
    /\ MainInit /\ ExportInit /\ ClientInit

OffsetNext ==
    \/ ~running /\ Server(StartBegin)
    \/ Server(StartCleanup)
    \/ Server(StartCheck(FALSE))
    \/ Server(StartSpawn)
    \/ \E req \in DataRequests : Server(UpdateSettings(req))
    \/ \E t \in Loops : Server(LoopPrepare(t, FALSE))
    \/ \E t \in Loops : Server(LoopStartStream(t, FALSE))
    \/ \E t \in Loops : Server(LoopTop(t))
    \/ \E t \in Loops, w \in OffsetWindows, ret \in DataReturns, above \in BOOLEAN :
         Server(LoopIterate(t, w, ret, above))
    \/ \E t \in Loops : Server(LoopExtend(t))
    \/ \E t \in Loops : Server(LoopEmit(t))
    \/ \E t \in Loops : Server(LoopWake(t))

SpecOffset == OffsetInit /\ [][OffsetNext]_vars

\* The band of the band-pass: one stream with the filter switch and the three
\* filter globals set by requests.
BandRequests ==
    {[lowcut |-> JInt(1)], [highcut |-> JInt(30)], [order |-> JInt(4)]}
    \cup {[bandpass_filter_enabled |-> b] : b \in BOOLEAN}
BandWindows == {[r \in Rows |-> <<x>>] : x \in RawVals}

BandNext ==
    \/ ~running /\ Server(StartBegin)
    \/ Server(StartCleanup)
    \/ Server(StartCheck(FALSE))
    \/ Server(StartSpawn)
    \/ \E req \in BandRequests : Server(UpdateSettings(req))
    \/ \E t \in Loops : Server(LoopPrepare(t, FALSE))
    \/ \E t \in Loops : Server(LoopStartStream(t, FALSE))
    \/ \E t \in Loops : Server(LoopTop(t))
    \/ \E t \in Loops, w \in BandWindows, above \in BOOLEAN :
         Server(LoopIterate(t, w, AllReturn, above))
    \/ \E t \in Loops : Server(LoopExtend(t))
    \/ \E t \in Loops : Server(LoopEmit(t))
    \/ \E t \in Loops : Server(LoopWake(t))

SpecBand == Init /\ [][BandNext]_vars

\* The archive over starts and stops: the start and stop handlers and the
\* loop threads, on windows of every length the board delivers.
BufWindows ==
    {[r \in Rows |-> s] : s \in UNION {[1..n -> CtlVals] : n \in 0..MaxWin}}

BufNext ==
    \/ Server(StartBegin)
    \/ Server(StartCleanup)
    \/ \E conflict \in BOOLEAN : Server(StartCheck(conflict))
    \/ Server(StartSpawn)
    \/ Server(StopBegin)
    \/ Server(StopFinish)
    \/ \E t \in Loops, raises \in BOOLEAN : Server(LoopPrepare(t, raises))
    \/ \E t \in Loops, raises \in BOOLEAN : Server(LoopStartStream(t, raises))
    \/ \E t \in Loops : Server(LoopTop(t))
    \/ \E t \in Loops, raises \in BOOLEAN : Server(LoopStopStream(t, raises))
    \/ \E t \in Loops, raises \in BOOLEAN : Server(LoopRelease(t, raises))
    \/ \E t \in Loops, w \in BufWindows, above \in BOOLEAN :
         Server(LoopIterate(t, w, AllReturn, above))
    \/ \E t \in Loops : Server(LoopExtend(t))
    \/ \E t \in Loops : Server(LoopEmit(t))
    \/ \E t \in Loops : Server(LoopPollRaises(t))
    \/ \E t \in Loops : Server(LoopWake(t))

SpecBuf == Init /\ [][BufNext]_vars

\* export_data next to one stream whose loop archives its windows line by
\* line; the board delivers the same readings on every row.
ExportWindows ==
    {[r \in Rows |-> s] : s \in UNION {[1..n -> RawVals] : n \in 0..MaxWin}}
\* Values of num_rows: negative, 0, up to one more than a window holds, and
\* texts int() rejects.
ExportNs == (0 - 1)..(MaxWin + 1)
ExportArgs == {JInt(n) : n \in ExportNs} \cup {JHalf(MaxWin), JText}

Exporting(A) == A /\ UNCHANGED <<main_vars, client_vars>>

ExportNext ==
    \/ ~running /\ Server(StartBegin)
    \/ Server(StartCleanup)
    \/ Server(StartCheck(FALSE))
    \/ Server(StartSpawn)
    \/ \E t \in Loops : Server(LoopPrepare(t, FALSE))
    \/ \E t \in Loops : Server(LoopStartStream(t, FALSE))
    \/ \E t \in Loops : Server(LoopTop(t))
    \/ \E t \in Loops, w \in ExportWindows, above \in BOOLEAN :
         Server(LoopIterate(t, w, AllReturn, above))
    \/ \E t \in Loops : Server(LoopExtend(t))
    \/ \E t \in Loops : Server(LoopEmit(t))
    \/ \E t \in Loops : Server(LoopWake(t))
    \/ \E x \in ExportArgs : Exporting(ExportData(x))
    \/ Exporting(ExportClamp)
    \/ Exporting(ExportSlice)

SpecExport == Init /\ [][ExportNext]_vars

\* update_settings on its own, with requests that name the filter globals:
\* one key, two keys, values the conversions round or reject.
SettingsRequests ==
    {[lowcut |-> x] : x \in {JInt(1), JInt(50), JHalf(3), JText}}
    \cup {[highcut |-> x] : x \in {JInt(30), JText}}
    \cup {[order |-> x] : x \in {JInt(0), JInt(4), JHalf(3), JText}}
    \cup {[bandpass_filter_enabled |-> b] : b \in BOOLEAN}
    \cup {[lowcut |-> JInt(1), order |-> JText],
          [highcut |-> JText, bandpass_filter_enabled |-> TRUE]}

SettingsNext == \E req \in SettingsRequests : Server(UpdateSettings(req))

SpecSettings == Init /\ [][SettingsNext]_vars

\* ---- The page: chart, color boxes and settings inputs ----

\* update_data events handled in one run of SpecChart.
MaxTicks == 2

\* The raw arrays the server emits: one entry for every EEG channel of the
\* board, whatever the settings are.  Entry r of payload k is 10 * k + r, so
\* that an entry tells its channel.
ClientPayloads == {[r \in Rows |-> 10 * k + r] : k \in 1..2}

\* The values the five inputs can be given.
InputValues(field) == IF field = "enabled_channels" THEN Rows ELSE BOOLEAN

Client(A) == A /\ UNCHANGED <<server_vars, main_vars, export_vars>>

ChartNext ==
    \/ \E raw \in ClientPayloads : clientTick < MaxTicks /\ Client(OnUpdateData(raw))
    \/ \E label \in BoxLabels : Client(ClickBox(label))
    \/ \E field \in DOMAIN PageInputs : \E value \in InputValues(field) :
          Client(ChangeInput(field, value))

SpecChart == Init /\ [][ChartNext]_vars

\* ---- The page: the sliding window of the chart over a long run ----

\* Events beyond the 100 the window is meant to hold.
ExtraEvents == 3

SlidePayload == [r \in Rows |-> r]

SlideNext == clientTick < MaxPoints + ExtraEvents /\ Client(OnUpdateData(SlidePayload))

SpecSlide == Init /\ [][SlideNext]_vars

\* ---- The page: the buttons ----

\* Requests (start-analysis, calibrate) awaiting their answer at one time.
MaxPending == 2

\* Status codes start_analysis answers with.
StartStatuses == {"200", "409", "500"}

ControlsNext ==
    \/ startPending < MaxPending /\ Client(ClickStart)
    \/ \E status \in StartStatuses : Client(StartAnswered(status))
    \/ Client(ClickStop)
    \/ calPending < MaxPending /\ Client(ClickCalibrate)
    \/ Client(CalibrationSettles)
    \/ \E field \in DOMAIN PageInputs : \E value \in InputValues(field) :
          Client(ChangeInput(field, value))

SpecControls == Init /\ [][ControlsNext]_vars

\* ---- The page: createChart on every value of the inputs ----

\* <input id="enabled_channels" min="1" max="8">
MaxChannels == 8

SeriesValues(field) == IF field = "enabled_channels" THEN 1..MaxChannels ELSE BOOLEAN

SeriesNext ==
    \E field \in DOMAIN PageInputs : \E value \in SeriesValues(field) :
       Client(ChangeInput(field, value))

SpecSeries == Init /\ [][SeriesNext]_vars

\* main.py on its own.
\* main.py on its own: the request threads of the two handlers, each taken
\* a line at a time, and the stream_data threads.
MainNext ==
    \/ \E q \in Requests, raises \in BOOLEAN :
         Len(boards) < MaxBoards /\ Main(MainStartAnalysis(q, raises))
    \/ \E q \in Requests, raises \in BOOLEAN : Main(MainPrepare(q, raises))
    \/ \E q \in Requests : Main(MainTestStreaming(q))
    \/ \E q \in Requests : Main(MainSetStreaming(q))
    \/ \E q \in Requests, raises \in BOOLEAN : Main(MainStartStream(q, raises))
    \/ \E q \in Requests : Main(MainSpawn(q))
    \/ \E q \in Requests : Main(MainStopAnalysis(q))
    \/ \E q \in Requests : Main(MainClearStreaming(q))
    \/ \E q \in Requests, raises \in BOOLEAN : Main(MainStopStream(q, raises))
    \/ \E q \in Requests, raises \in BOOLEAN : Main(MainRelease(q, raises))
    \/ \E t \in Loops : Main(MainLoopTop(t))
    \/ \E t \in Loops, w \in MainWindows, raises \in BOOLEAN :
         Main(MainLoopPoll(t, w, raises))
    \/ \E t \in Loops : Main(MainLoopWake(t))

SpecMain == Init /\ [][MainNext]_vars

\* ------------------------------------------------------------------ claims
StartSpawns(t) == pc[t] = "free" /\ pc'[t] = "setup"
LoopAlive == \E t \in Loops : Alive(t)
HoldingLoops == {t \in Loops : Alive(t) /\ Holds(t)}
CalHolds == calPc # "idle" /\ calSession # "none"

\* C1: at any time at most one acquisition loop, streaming or calibrating,
\* holds a sensor session.
C1_SingleProducer ==
    Cardinality(HoldingLoops) + (IF CalHolds THEN 1 ELSE 0) <= 1

\* C2: a start request made while the stream is Running (it found the flag
\* set and a loop thread alive) spawns no second loop thread.
C2_StartWhileRunningNoOp ==
    [][(startFound.running /\ startFound.alive)
         => \A t \in Loops : ~StartSpawns(t)]_vars

\* C3: a start request that finds a GPIO conflict while the stream is Idle
\* answers 409 and leaves the stream Idle: the flag is still False and no
\* loop thread was started.
C3_ConflictLeavesIdle ==
    [][(startPc = "check" /\ startPc' = "idle" /\ ~startFound.running)
         => (lastStart' = "409" /\ running' = FALSE /\ pc' = pc)]_vars

\* C4: calibrate() called while the stream is Running (the flag is set and a
\* loop thread is alive) fails: no calibration run gets under way, so none
\* can store a new vector.
C4_CalibrateWhileRunningFails ==
    [][(running /\ LoopAlive /\ calPc = "idle") => calPc' = "idle"]_vars

\* C5: every loop that a stop() found alive on a Running stream eventually
\* sees the flag cleared and ends, whatever requests follow.
C5_StopObserved ==
    \A t \in Loops : (t \in stopPending) ~> (t \notin stopPending)

\* A step of a stop request that found the flag False.
StopIdleStep ==
    \/ stopPc = "idle" /\ stopPc' = "sleeping" /\ ~running
    \/ stopPc = "sleeping" /\ stopPc' = "idle" /\ stopIdle

\* C7 (as stated): stop() while Idle changes nothing, releases nothing and
\* signals nothing.
C7_StopIdleNoOp ==
    [][StopIdleStep =>
         UNCHANGED <<running, collected_data, calibration_values, settings, pc,
                     session, gpio_open, emitted>>]_vars

\* C7 (amended): stop() while Idle leaves StreamState, ExportBuffer,
\* CalibrationVector, the settings and every loop thread and session as they
\* were.
C7_StopIdleKeepsState ==
    [][StopIdleStep =>
         UNCHANGED <<running, collected_data, calibration_values, settings, pc,
                     session>>]_vars

\* A stop request that found the flag False is under way, with data archived
\* before it and a loop thread that ended holding a stopped board.
C7_Witness ==
    /\ stopPc = "sleeping"
    /\ stopIdle
    /\ ~running
    /\ ~LoopAlive
    /\ collected_data # <<>>
    /\ collected_data[1] # <<>>
    /\ \E t \in Loops : pc[t] = "dead" /\ session[t] = "stopped"

\* C6: no stream_data thread polls the board after stop_stream() has released
\* its session.
C6_NoPollAfterRelease ==
    [][\A t \in Loops :
         (mpc[t] = "poll" /\ mpc'[t] # "poll") => boards[board] # "released"]_vars

\* C8: every start request ends with 200 or with 409.
C8_StartOutcome == lastStart \in {"none", "200", "409"}

\* C9 (as stated): after a calibration run that failed, calibration_values
\* is the vector the run found: only a run that completes replaces it.
C9_FailedRunKeepsVector ==
    (calPc = "idle"
       /\ calResult \in {"failed_setup", "failed_sampling", "failed_teardown"})
    => calibration_values = calBefore

\* C10 (as stated): every archived value is a reading as the board delivered
\* it, with no filter, baseline correction or normalisation applied.
C10_ArchiveIsRaw ==
    \A r \in DOMAIN collected_data : \A i \in 1..Len(collected_data[r]) :
        collected_data[r][i].ops = <<>>

\* The steps of a pass of the loop body that got data up to line 265
\* (Resets) and of lines 272-275 (Emits).
Resets(t) == pc[t] = "body" /\ pc'[t] = "archive"
Emits(t) == pc[t] = "emit" /\ pc'[t] = "sleep"

IsPrefix(a, b) == Len(a) <= Len(b) /\ \A i \in 1..Len(a) : a[i] = b[i]

\* C11 (as stated): every step either extends each row of the archive (or
\* leaves it), or is a start that empties it while no loop thread is alive.
C11_AppendOnly ==
    [][\/ \A r \in DOMAIN collected_data : IsPrefix(collected_data[r], collected_data'[r])
       \/ /\ collected_data' = EmptyRows
          /\ \E t \in Loops : StartSpawns(t)
          /\ ~LoopAlive]_vars

\* C12 (as stated): an export with num_rows = n >= 0 answers 200 with one header cell per
\* channel and exactly min(n, L) data rows of one cell per channel, L being
\* the number of complete rows the archive holds at that moment.
C12_ExportRowCount ==
    [][(exportReply' # exportReply /\ exportReply'.arg.kind = "int"
                                   /\ exportReply'.n >= 0) =>
         /\ exportReply'.status = 200
         /\ Len(exportReply'.body.header) = Len(collected_data)
         /\ Len(exportReply'.body.rows) = Min({exportReply'.n, MinLen(collected_data)})
         /\ \A k \in 1..Len(exportReply'.body.rows) :
              Len(exportReply'.body.rows[k]) = Len(collected_data)]_vars

\* The last k elements of ch.
LastOf(ch, k) == [i \in 1..k |-> ch[Len(ch) - k + i]]

\* C13: the data rows an export with num_rows = n >= 0 returns are the last
\* min(n, L) rows of the archive, channel by channel.
C13_ExportMostRecent ==
    [][(exportReply' # exportReply /\ exportReply'.arg.kind = "int"
                                   /\ exportReply'.n >= 0
                                   /\ exportReply'.status = 200) =>
         exportReply'.body.rows =
           CreateCsv([i \in 1..Len(collected_data) |->
                        LastOf(collected_data[i],
                               Min({exportReply'.n, MinLen(collected_data)}))]).rows]_vars

\* C14: the entry a pass of the loop publishes for a channel is the last
\* sample of that channel's window, the most recent one the poll returned.
C14_PublishesLatest ==
    [][\A t \in Loops : Emits(t) =>
         \A r \in Rows :
            emitted'.raw[r] = passData[t][r][Len(passData[t][r])]]_vars

\* C15 (as stated): the raw array of an event has one entry per series of
\* the chart (REF, BIASOUT, Ch1.. as enabled), and the event appends entry i
\* to series i.
C15_RawMatchesSeries ==
    [][\A raw \in ClientPayloads : OnUpdateData(raw) =>
         /\ Len(raw) = Len(chart.datasets)
         /\ \A i \in 1..Len(chart.datasets) :
               LET d == chart'.datasets[i].data
               IN  /\ d # <<>>
                   /\ d[Len(d)].x = clientTick'
                   /\ d[Len(d)].y = raw[i]]_vars

\* C16 (as stated): every series of the chart holds at most 100 points, and
\* an update_data event that drops a point from a series drops its oldest.
C16_AtMost100Points ==
    \A i \in 1..Len(chart.datasets) : Len(chart.datasets[i].data) <= MaxPoints

\* C17: one click on a color box negates the hidden flag of the series with
\* the label of the box and leaves the points of the series as they were.
C17_ClickNegatesFlag ==
    [][\A label \in BoxLabels : ClickBox(label) =>
         LET i == FindSeries(chart, label)
         IN  i # 0 =>
               /\ Hidden(chart'.datasets[i].hidden) = ~Hidden(chart.datasets[i].hidden)
               /\ chart'.datasets[i].data = chart.datasets[i].data
               /\ chart'.datasets[i].label = label]_vars

\* A click has just hidden a series that holds points.
C17_Witness ==
    /\ beforeClick.label \in BoxLabels
    /\ beforeClick.data # <<>>
    /\ ~Hidden(beforeClick.hidden)
    /\ LET i == FindSeries(chart, beforeClick.label)
       IN  i # 0 /\ Hidden(chart.datasets[i].hidden)

\* C18: a second click on the same color box, right after a first one, leaves
\* the series with the hidden flag and the points it had before the first.
C18_TwoClicksRestore ==
    [][\A label \in BoxLabels :
         (ClickBox(label) /\ beforeClick.label = label /\ beforeClick.hidden # "none") =>
            LET i == FindSeries(chart, label)
            IN  /\ i # 0
                /\ Hidden(chart'.datasets[i].hidden) = Hidden(beforeClick.hidden)
                /\ chart'.datasets[i].data = beforeClick.data]_vars

\* Two clicks in a row have been made on the box of a series that holds
\* points: the series was hidden before the last click and is shown again.
C18_Witness ==
    /\ beforeClick.label \in BoxLabels
    /\ beforeClick.hidden = "true"
    /\ beforeClick.data # <<>>
    /\ LET i == FindSeries(chart, beforeClick.label)
       IN  i # 0 /\ chart.datasets[i].hidden = "false"

\* C19 (as stated): the page is Calibrating only after a click made while
\* Stopped, a settled calibration request leaves it Stopped, and while a
\* calibration request is pending the page is never Running.
C19_NoRunningWhileCalibrating ==
    calPending > 0 => clientState # "Running"

\* C20 (as stated): a change of the inputs that leaves the channel count, REF
\* and BIASOUT as they were keeps the chart, points included; a change of one
\* of the three rebuilds it.
C20_RebuildOnlyOnChannelChange ==
    [][inputs' # inputs =>
         IF /\ inputs'.enabled_channels = inputs.enabled_channels
            /\ inputs'.ref_enabled = inputs.ref_enabled
            /\ inputs'.biasout_enabled = inputs.biasout_enabled
         THEN chart' = chart
         ELSE chart' = CreateChart(inputs')]_vars

\* C21: a request to update_settings leaves every global whose key the
\* request does not carry with the value it had.
C21_AbsentFieldsKept ==
    [][\A req \in SettingsRequests : UpdateSettings(req) =>
         \A f \in DOMAIN settings :
            LET key == IF f = "bandpass_enabled" THEN "bandpass_filter_enabled" ELSE f
            IN  key \notin DOMAIN req => settings'[f] = settings[f]]_vars

\* Requests that carried highcut, order and the band-pass switch, one key
\* each, have been served, the last with status 500; the globals whose keys
\* the last one did not carry are as they were.
C21_Witness ==
    /\ lastUpdate = "500"
    /\ wanted.highcut = Num(30, 1)
    /\ wanted.order = Num(4, 1)
    /\ wanted.bandpass_enabled
    /\ settings.enabled_channels = NumEEG
    /\ settings.ref_enabled /\ settings.biasout_enabled

\* a/b < c/d, for numbers with positive denominators.
Less(x, y) == x.num * y.den < y.num * x.den

\* C22 (as stated): in every reachable state lowcut, highcut and order have
\* values, lowcut < highcut and order > 0.
C22_FilterSettingsValid ==
    /\ settings.lowcut.bound /\ settings.highcut.bound /\ settings.order.bound
    /\ Less(settings.lowcut, settings.highcut)
    /\ settings.order.num > 0

\* C23: for every channel count from 1 to 8 and every setting of REF and
\* BIASOUT, the chart createChart builds has enabledChannels + (1 if REF) +
\* (1 if BIASOUT) series.
C23_SeriesCount ==
    Len(chart.datasets) =
       inputs.enabled_channels + (IF inputs.ref_enabled THEN 1 ELSE 0)
                               + (IF inputs.biasout_enabled THEN 1 ELSE 0)

\* The chart has been rebuilt for 8 channels with BIASOUT and without REF.
C23_Witness ==
    /\ inputs.enabled_channels = MaxChannels
    /\ ~inputs.ref_enabled /\ inputs.biasout_enabled
    /\ Len(chart.datasets) = MaxChannels + 1
    /\ chart.datasets[1].label = BiasoutLabel
    /\ chart.datasets[MaxChannels + 1].label = ChLabel(MaxChannels)

\* C24 (as stated): a pass of the loop body in which a library call raises
\* is skipped: the thread goes on to its next pass and `running` stays as it
\* was.
C24_IterationErrorSkipped ==
    [][\A t \in Loops :
         (pc[t] = "body" /\ pc'[t] # "body") =>
            pc'[t] \in {"top", "archive"} /\ running' = running]_vars

\* C25 (as stated): when BoardShim(), prepare_session() or start_stream()
\* raises, the thread ends and `running` is False afterwards.
C25_SetupFailureLeavesIdle ==
    [][\A t \in Loops :
         (pc[t] \in {"setup", "start"} /\ pc'[t] \in {"free", "dead"})
            => ~running']_vars

\* C26 (as stated): a loop thread that has ended, and a calibration run that
\* has ended, hold no session: whatever they prepared they released.
C26_SessionReleasedOnExit ==
    /\ \A t \in Loops : pc[t] \in {"free", "dead"} => session[t] = "none"
    /\ calPc = "idle" => calSession = "none"

\* C27 (as stated): once the requests served have enabled band-pass and
\* baseline correction, a channel whose window is constant and equal to its
\* calibration value is published as 0.
C27_ConstantOffsetPublishedZero ==
    [][\A t \in Loops :
         (/\ Emits(t)
          /\ wanted.bandpass_enabled /\ wanted.baseline_correction_enabled) =>
            \A r \in Rows :
               (\A i \in 1..Len(passData[t][r]) :
                   Rat(passData[t][r][i].v, 1) = calibration_values[r])
               => ConstValue(emitted'.raw[r]) = Rat(0, 1)]_vars

C29_BandFromSettings ==
    [][\A t \in Loops :
         (Emits(t) /\ wanted.bandpass_enabled) =>
            \A r \in Rows : \E k \in 1..Len(emitted'.raw[r].ops) :
               /\ emitted'.raw[r].ops[k].op = "bandpass"
               /\ \A j \in 1..3 :
                     Num(emitted'.raw[r].ops[k].arg[j], 1)
                        = <<wanted.lowcut, wanted.highcut, wanted.order>>[j]]_vars

\* The filter operations a sample carries, in the order applied.
FilterOps(s) == SelectSeq(s.ops, LAMBDA o : o.op \in {"detrend", "bandpass", "bandstop"})

\* C30 (as stated): a pass made after the requests served have enabled
\* band-pass applies to every channel of the window, once each and in this
\* order, detrend, band-pass, the 48-52 Hz notch and the 58-62 Hz notch; a
\* pass made with band-pass not enabled applies none of them to any channel.
C30_FilterChainPerChannel ==
    [][\A t \in Loops :
         Resets(t) =>
            \A r \in Rows : \A i \in 1..Len(passData'[t][r]) :
               LET f == FilterOps(passData'[t][r][i])
               IN  IF wanted.bandpass_enabled
                   THEN /\ [k \in 1..Len(f) |-> f[k].op]
                            = <<"detrend", "bandpass", "bandstop", "bandstop">>
                        /\ SubSeq(f[3].arg, 1, 2) = <<48, 52>>
                        /\ SubSeq(f[4].arg, 1, 2) = <<58, 62>>
                   ELSE f = <<>>]_vars

====
